---- MODULE Spec2Model ----
(***************************************************************************)
(* Workforce planning: solve_workforce_planning builds a mixed-integer     *)
(* linear program (hire / fire / employees / overtime / unmet demand per   *)
(* month), hands it to the CBC solver and reports status, "Total Cost" and *)
(* the per-month values; the page then shows a budget-variance card.       *)
(*                                                                         *)
(* The solver is modelled by what a correct MILP engine may return: for a  *)
(* feasible bounded problem ANY minimiser of the objective, otherwise the  *)
(* status Infeasible / Unbounded with variable values that may be left     *)
(* unassigned.  Two consecutive clicks on "Optimize" are modelled; the     *)
(* parameters and the result of the first click are kept as history so     *)
(* that two runs can be compared.                                          *)
(***************************************************************************)
EXTENDS Integers, Sequences, FiniteSets

VARIABLES
    pc,          \* "input1", "shown1", "input2", "shown2"
    params,      \* the arguments of solve_workforce_planning for the next/last click
    status,      \* LpStatus[problem.status] after the last solve
    results,     \* what the last click produced (returned dict or raised error)
    banner,      \* what the page rendered for the last click
    prevParams,  \* history: arguments of the first click
    prevStatus,  \* history: solver status of the first click
    prevResults, \* history: result of the first click
    change       \* history: which widget was changed between the two clicks

vars == <<pc, params, status, results, banner, prevParams, prevStatus, prevResults, change>>

----------------------------------------------------------------------------
(* Bounds of the explored inputs *)

MaxMonths == 2
MaxDemand == 4
MaxInitial == 1
MaxCap == 1
ServiceRateDen == 2

Months == 1..MaxMonths
HiringCosts == {-1, 2}
FiringCosts == {1}
SalaryCosts == {1}
PenaltyCosts == {-1, 1, 3}
\* the penalty and the service rate of the first click; the second click varies them
FirstPenaltyCosts == {1}
FirstServiceRates == {ServiceRateDen}
OvertimeCosts == {1, 2}
InitialEmployees == 0..MaxInitial
HireCaps == 0..MaxCap
FireCaps == 0..MaxCap
OvertimeRates == {1}
WorkingHours == {2}
Demands == {0, MaxDemand}
ManualBudgets == {0, 4}
\* service_rate is the fraction n / ServiceRateDen, n in 0..ServiceRateDen
ServiceRates == 0..ServiceRateDen

\* a variable the solver left without a value (var.value() is None)
None == -1

----------------------------------------------------------------------------
(* Arithmetic helpers *)

RECURSIVE SumTo(_, _)
\* sum(f(i) for i in range(n)), periods numbered 1..n
SumTo(f, n) == IF n = 0 THEN 0 ELSE SumTo(f, n - 1) + f[n]

Minimum(S) == CHOOSE m \in S : \A n \in S : m <= n

----------------------------------------------------------------------------
(* The MILP built by solve_workforce_planning *)

\* Domain of one month's decision variables: non-negative integers
\* (lowBound=0, cat='Integer').  The ranges are wide enough to hold every
\* value the constraints allow for H, F, E and O; U has no upper limit in the
\* program and is cut at MaxDemand, above which more slack is never needed.
PeriodValues ==
    [H : 0..MaxCap, F : 0..MaxCap,
     E : 0..(MaxInitial + MaxMonths * MaxCap),
     O : 0..(MaxInitial + MaxMonths * MaxCap),
     U : 0..MaxDemand]

EmptyAssignment == [H |-> <<>>, F |-> <<>>, E |-> <<>>, O |-> <<>>, U |-> <<>>]

AppendPeriod(a, t) ==
    [H |-> Append(a.H, t.H), F |-> Append(a.F, t.F), E |-> Append(a.E, t.E),
     O |-> Append(a.O, t.O), U |-> Append(a.U, t.U)]

\* month i's values of an assignment
Period(a, i) ==
    [H |-> a.H[i], F |-> a.F[i], E |-> a.E[i], O |-> a.O[i], U |-> a.U[i]]

\* The constraints of month i.  a holds the months before i (it may hold
\* more), t the values of month i.

\* (variant: every month starts from the initial headcount)
BalanceFromInitial(p, a, t, i) ==
    t.E = p.initial_employees + t.H - t.F

\* E[i] == initial_employees + H[i] - F[i]   /   E[i] == E[i-1] + H[i] - F[i]
Balance(p, a, t, i) ==
    IF i = 1
    THEN t.E = p.initial_employees + t.H - t.F
    ELSE t.E = a.E[i - 1] + t.H - t.F

\* (variant: the slack U is left out of the coverage constraint)
DemandCoverWithoutSlack(p, t, i) ==
    (t.E * p.working_hours + t.O) * ServiceRateDen >= p.demand[i] * p.service_rate

\* E[i]*working_hours + O[i] + U[i] >= demand[i]*service_rate
Demand_Cover(p, t, i) ==
    (t.E * p.working_hours + t.O + t.U) * ServiceRateDen
        >= p.demand[i] * p.service_rate

Hiring_Capacity(p, t) == t.H <= p.maxh

Firing_Capacity(p, t) == t.F <= p.maxf

Overtime_Limit(p, t) == t.O <= t.E * p.overtime_rate

\* (variant: the shortfall constraint is not imposed)
UnmetDemandDropped(p, t, i) == TRUE

\* U[i] >= demand[i] - (E[i]*working_hours + O[i])
Unmet_Demand(p, t, i) ==
    t.U >= p.demand[i] - (t.E * p.working_hours + t.O)

PeriodConstraints(p, a, t, i) ==
    /\ Balance(p, a, t, i)
    /\ Demand_Cover(p, t, i)
    /\ Hiring_Capacity(p, t)
    /\ Firing_Capacity(p, t)
    /\ Overtime_Limit(p, t)
    /\ Unmet_Demand(p, t, i)

\* total_cost: hiring + firing + salary + overtime, penalty excluded
total_cost(p, a) ==
    SumTo([i \in 1..p.months |->
              a.H[i] * p.hiring_cost + a.F[i] * p.firing_cost
              + a.E[i] * p.effective_salary_cost + a.O[i] * p.overtime_cost],
          p.months)

\* (variant: the salary term is missing from the budgeted total)
BudgetOmitsSalary(p, a) ==
    SumTo([i \in 1..p.months |->
              a.H[i] * p.hiring_cost + a.F[i] * p.firing_cost
              + a.O[i] * p.overtime_cost],
          p.months) <= p.budget

\* (variant: no budget constraint)
BudgetIgnored(p, a) == TRUE

Budget_Constraint(p, a) == total_cost(p, a) <= p.budget

\* (variant: the penalty term is missing from the objective)
ObjectiveWithoutPenalty(p, a) == total_cost(p, a)

\* the objective "Total_Cost": budgeted cost plus penalty
Objective(p, a) ==
    SumTo([i \in 1..p.months |->
              a.H[i] * p.hiring_cost + a.F[i] * p.firing_cost
              + a.E[i] * p.effective_salary_cost + a.O[i] * p.overtime_cost
              + a.U[i] * p.penalty_cost],
          p.months)

RECURSIVE Build(_, _, _)
\* the loop over the months: every assignment of months 1..i-1 in partials is
\* extended by the values of month i that satisfy month i's constraints
Build(p, i, partials) ==
    IF i > p.months
    THEN partials
    ELSE Build(p, i + 1,
               UNION {{AppendPeriod(a, t) :
                          t \in {u \in PeriodValues : PeriodConstraints(p, a, u, i)}} :
                      a \in partials})

\* the assignments that satisfy every constraint of the problem
Feasible(p) ==
    {a \in Build(p, 1, {EmptyAssignment}) : Budget_Constraint(p, a)}

----------------------------------------------------------------------------
(* problem.solve(PULP_CBC_CMD(msg=True)) *)

\* (variant: the solver stops at any feasible assignment)
AnyFeasible(p, feas) == feas

\* the minimisers of the objective over the feasible assignments feas
Optimal(p, feas) ==
    LET best == Minimum({Objective(p, a) : a \in feas})
    IN  {a \in feas : Objective(p, a) = best}

\* Values the variables may carry when the solver found no optimum: each of
\* H, F, E, O, U either 0 or left unassigned.
Unsolved(p) ==
    {[H |-> [i \in 1..p.months |-> t.H], F |-> [i \in 1..p.months |-> t.F],
      E |-> [i \in 1..p.months |-> t.E], O |-> [i \in 1..p.months |-> t.O],
      U |-> [i \in 1..p.months |-> t.U]] :
        t \in {[H |-> 0, F |-> 0, E |-> 0, O |-> 0, U |-> 0],
               [H |-> None, F |-> None, E |-> None, O |-> None, U |-> None]}}

\* What the solver may hand back: status and variable values.  U is the only
\* variable without an upper limit, so the problem is unbounded exactly when
\* it is feasible and penalty_cost is negative.
SolverOutcomes(p) ==
    LET feas == Feasible(p)
    IN  IF feas = {}
        THEN {[status |-> "Infeasible", values |-> v] : v \in Unsolved(p)}
        ELSE IF p.penalty_cost < 0
             THEN {[status |-> "Unbounded", values |-> v] : v \in Unsolved(p)}
             ELSE {[status |-> "Optimal", values |-> a] : a \in Optimal(p, feas)}

----------------------------------------------------------------------------
(* Extraction of the result *)

safe_value(v) == IF v # None THEN v ELSE 0

\* problem.objective.value() is a number only if every variable has a value
ObjectiveHasValue(p, v) ==
    \A i \in 1..p.months :
        /\ v.H[i] # None /\ v.F[i] # None /\ v.E[i] # None
        /\ v.O[i] # None /\ v.U[i] # None

objective_penalty(p, v) ==
    SumTo([i \in 1..p.months |-> safe_value(v.U[i]) * p.penalty_cost], p.months)

\* (variant: the penalty component is not subtracted)
TotalCostWithPenalty(p, v) == Objective(p, v)

\* "Total Cost": problem.objective.value() - objective_penalty
TotalCost(p, v) == Objective(p, v) - objective_penalty(p, v)

Details(p, v) ==
    [i \in 1..p.months |->
        [Month |-> i, Demand |-> p.demand[i],
         Hired |-> safe_value(v.H[i]), Fired |-> safe_value(v.F[i]),
         Employees |-> safe_value(v.E[i]), Overtime |-> safe_value(v.O[i]),
         UnmetDemand |-> safe_value(v.U[i])]]

\* the value solve_workforce_planning returns for solver outcome out, or the
\* TypeError raised by None - objective_penalty
solve_workforce_planning(p, out) ==
    IF ObjectiveHasValue(p, out.values)
    THEN [outcome |-> "returned", Status |-> out.status,
          TotalCost |-> TotalCost(p, out.values),
          Details |-> Details(p, out.values)]
    ELSE [outcome |-> "TypeError", Status |-> "none",
          TotalCost |-> 0, Details |-> <<>>]

\* the card the page shows for a result
Render(p, r) ==
    IF r.outcome # "returned" THEN "exception"
    ELSE IF r.Status = "Optimal"
         THEN IF p.budget - r.TotalCost >= 0 THEN "Under Budget" ELSE "Over Budget"
         ELSE "error"

----------------------------------------------------------------------------
(* State machine *)

NoResult == [outcome |-> "none", Status |-> "none", TotalCost |-> 0, Details |-> <<>>]

\* budget: auto-calculated from the initial headcount, or entered by hand
Budgets(n, salary, months) == {n * salary * months} \cup ManualBudgets

ParamSets ==
    UNION {UNION {
        [months : {m}, hiring_cost : HiringCosts, firing_cost : FiringCosts,
         effective_salary_cost : {s}, penalty_cost : FirstPenaltyCosts,
         overtime_cost : OvertimeCosts, initial_employees : {n},
         maxh : HireCaps, maxf : FireCaps, overtime_rate : OvertimeRates,
         working_hours : WorkingHours, demand : [1..m -> Demands],
         budget : Budgets(n, s, m), service_rate : FirstServiceRates] :
        s \in SalaryCosts, n \in InitialEmployees} : m \in Months}

Init ==
    /\ pc = "input1"
    /\ params \in ParamSets
    /\ status = "none"
    /\ results = NoResult
    /\ banner = "none"
    /\ prevParams = params
    /\ prevStatus = "none"
    /\ prevResults = NoResult
    /\ change = "none"

\* the "Optimize" button: solve, then render
Optimize ==
    /\ pc \in {"input1", "input2"}
    /\ \E out \in SolverOutcomes(params) :
          /\ status' = out.status
          /\ results' = solve_workforce_planning(params, out)
          /\ banner' = Render(params, results')
    /\ pc' = IF pc = "input1" THEN "shown1" ELSE "shown2"
    /\ UNCHANGED <<params, prevParams, prevStatus, prevResults, change>>

Remember(what) ==
    /\ pc = "shown1"
    /\ pc' = "input2"
    /\ prevParams' = params
    /\ prevStatus' = status
    /\ prevResults' = results
    /\ change' = what
    /\ UNCHANGED <<status, results, banner>>

\* "Penalty for Unmet Demand" widget
ChangePenalty ==
    /\ Remember("penalty_cost")
    /\ \E v \in PenaltyCosts \ {params.penalty_cost} :
          params' = [params EXCEPT !.penalty_cost = v]

\* "Demand for Month i" widgets
ChangeDemand ==
    /\ Remember("demand")
    /\ \E d \in [1..params.months -> Demands] \ {params.demand} :
          params' = [params EXCEPT !.demand = d]

\* "Service Rate" slider
ChangeServiceRate ==
    /\ Remember("service_rate")
    /\ \E v \in ServiceRates \ {params.service_rate} :
          params' = [params EXCEPT !.service_rate = v]

\* "Optimize" pressed again with nothing changed
Unchanged ==
    /\ Remember("nothing")
    /\ params' = params

Next ==
    \/ Optimize
    \/ ChangePenalty
    \/ ChangeDemand
    \/ ChangeServiceRate
    \/ Unchanged

Spec == Init /\ [][Next]_vars

----------------------------------------------------------------------------
(* Vocabulary of the properties *)

Shown == pc \in {"shown1", "shown2"}

IsOptimal == Shown /\ results.outcome = "returned" /\ results.Status = "Optimal"

BothOptimal ==
    /\ pc = "shown2"
    /\ results.outcome = "returned" /\ results.Status = "Optimal"
    /\ prevResults.outcome = "returned" /\ prevResults.Status = "Optimal"

\* the preconditions the data model puts on the parameters
Valid(p) ==
    /\ p.months >= 1
    /\ Len(p.demand) = p.months
    /\ \A i \in 1..p.months : p.demand[i] >= 0
    /\ p.hiring_cost >= 0 /\ p.firing_cost >= 0 /\ p.overtime_cost >= 0
    /\ p.penalty_cost >= 0 /\ p.effective_salary_cost >= 0
    /\ p.initial_employees >= 0 /\ p.maxh >= 0 /\ p.maxf >= 0
    /\ p.overtime_rate >= 0 /\ p.working_hours > 0
    /\ p.budget >= 0
    /\ p.service_rate \in 0..ServiceRateDen

\* the reported per-month values, read back as an assignment
Reported(r) ==
    [H |-> [i \in 1..Len(r.Details) |-> r.Details[i].Hired],
     F |-> [i \in 1..Len(r.Details) |-> r.Details[i].Fired],
     E |-> [i \in 1..Len(r.Details) |-> r.Details[i].Employees],
     O |-> [i \in 1..Len(r.Details) |-> r.Details[i].Overtime],
     U |-> [i \in 1..Len(r.Details) |-> r.Details[i].UnmetDemand]]

\* initialEmployees + sum over k <= i of (Hired[k] - Fired[k])
Telescoped(p, r, i) ==
    p.initial_employees
    + SumTo([k \in 1..i |-> r.Details[k].Hired - r.Details[k].Fired], i)

\* sum of Hired*hiringCost + Fired*firingCost + Employees*salary + Overtime*overtimeCost
BudgetedCost(p, r) ==
    SumTo([i \in 1..p.months |->
              r.Details[i].Hired * p.hiring_cost + r.Details[i].Fired * p.firing_cost
              + r.Details[i].Employees * p.effective_salary_cost
              + r.Details[i].Overtime * p.overtime_cost],
          p.months)

PenaltyCost(p, r) ==
    SumTo([i \in 1..p.months |-> r.Details[i].UnmetDemand * p.penalty_cost], p.months)

TotalUnmet(r) ==
    SumTo([i \in 1..Len(r.Details) |-> r.Details[i].UnmetDemand], Len(r.Details))

\* assignment a satisfies every constraint built from p
Satisfies(p, a) ==
    /\ \A i \in 1..p.months :
          /\ a.H[i] >= 0 /\ a.F[i] >= 0 /\ a.E[i] >= 0 /\ a.O[i] >= 0 /\ a.U[i] >= 0
          /\ PeriodConstraints(p, a, Period(a, i), i)
    /\ Budget_Constraint(p, a)

----------------------------------------------------------------------------
(* Properties *)

\* C1: in every optimal solution, for every period i the reported Employees[i]
\* is >= 0 and equals initialEmployees + sum over k <= i of (Hired[k] - Fired[k]).
HeadcountTelescopes ==
    IsOptimal =>
        \A i \in 1..params.months :
            /\ results.Details[i].Employees >= 0
            /\ results.Details[i].Employees = Telescoped(params, results, i)

\* C1 witness: a two-month optimal plan of valid parameters whose headcount
\* changes by hiring or firing.
HeadcountChanged ==
    /\ IsOptimal /\ Valid(params) /\ params.months = 2
    /\ results.Details[2].Fired > 0
    /\ results.Details[2].Employees # params.initial_employees

\* C2: for every Optimal run the reported hiring + firing + salary + overtime
\* cost, penalty excluded, is at most the budget.
BudgetRespected ==
    IsOptimal => BudgetedCost(params, results) <= params.budget

\* C2 witness: an optimal plan that stays within budget only because the
\* penalty cost is not counted.
PenaltyOutsideBudget ==
    /\ IsOptimal /\ Valid(params)
    /\ PenaltyCost(params, results) > 0
    /\ BudgetedCost(params, results) + PenaltyCost(params, results) > params.budget

\* C3: the reported Total Cost is the budgeted cost recomputed from the
\* reported per-month values (objective minus penalty); when the status is
\* Optimal it is at most the budget and the page never shows "Over Budget".
TotalCostIsBudgetedCost ==
    (Shown /\ results.outcome = "returned") =>
        /\ results.TotalCost = BudgetedCost(params, results)
        /\ results.Status = "Optimal" =>
              /\ results.TotalCost <= params.budget
              /\ banner = "Under Budget"
        /\ banner # "Over Budget"

\* C3 witness: an optimal result with unmet demand (a positive penalty
\* component) rendered as under budget.
UnderBudgetWithPenalty ==
    /\ IsOptimal /\ Valid(params)
    /\ PenaltyCost(params, results) > 0
    /\ results.TotalCost > 0
    /\ banner = "Under Budget"

\* C4: two feasible runs that differ only in penaltyCost: the run with the
\* larger penalty never has more total unmet demand, whichever optimal
\* solutions the solver picks.
UnmetMonotoneInPenalty ==
    (BothOptimal /\ change = "penalty_cost") =>
        /\ prevParams.penalty_cost < params.penalty_cost
              => TotalUnmet(results) <= TotalUnmet(prevResults)
        /\ prevParams.penalty_cost > params.penalty_cost
              => TotalUnmet(results) >= TotalUnmet(prevResults)

\* C4 witness: raising the penalty strictly lowered the total unmet demand.
PenaltyLoweredUnmet ==
    /\ BothOptimal /\ change = "penalty_cost" /\ Valid(params)
    /\ prevParams.penalty_cost < params.penalty_cost
    /\ TotalUnmet(results) < TotalUnmet(prevResults)

SlackAbsorbsDemand ==
    /\ (pc = "shown2" /\ change = "demand") =>
          ((status = "Infeasible") <=> (prevStatus = "Infeasible"))
    /\ (Shown /\ Valid(params) /\ params.maxh = 0 /\ status # "Infeasible") =>
          \A i \in 1..params.months :
              params.demand[i] > params.initial_employees
                                   * (params.working_hours + params.overtime_rate)
              => /\ IsOptimal
                 /\ results.Details[i].UnmetDemand > 0

\* C6 witness: demand raised above capacity with hiring forbidden; the run
\* stays Optimal and reports unmet demand.
DemandSpikeAbsorbed ==
    /\ BothOptimal /\ change = "demand" /\ params.maxh = 0 /\ Valid(params)
    /\ TotalUnmet(prevResults) = 0
    /\ \E i \in 1..params.months :
          /\ params.demand[i] > params.initial_employees
                                  * (params.working_hours + params.overtime_rate)
          /\ results.Details[i].UnmetDemand > 0

\* C7: with valid parameters, firing forbidden and
\* initialEmployees * effectiveSalaryCost * periods > budget, the solver
\* status is Infeasible and no Optimal result is reported.
UnpayableHeadcountInfeasible ==
    (Shown /\ Valid(params) /\ params.maxf = 0
       /\ params.initial_employees * params.effective_salary_cost * params.months
            > params.budget) =>
        /\ status = "Infeasible"
        /\ results.Status # "Optimal"
        /\ banner \notin {"Under Budget", "Over Budget"}

\* C7 witness: such a run, returned with status Infeasible.
UnpayableHeadcountSeen ==
    /\ Shown /\ Valid(params) /\ params.maxf = 0
    /\ params.initial_employees * params.effective_salary_cost * params.months
         > params.budget
    /\ results.outcome = "returned" /\ results.Status = "Infeasible"
    /\ banner = "error"

\* C8: invalid parameters never reach the solver: no solver status is ever
\* reported for a parameter set that violates a precondition.
InvalidNeverSolved ==
    (Shown /\ ~Valid(params)) => status = "none"

\* C9: every solver outcome is returned as a result, never raised, and the
\* result holds numbers only (0 for unassigned variables).
NonOptimalIsReturned ==
    Shown =>
        /\ results.outcome = "returned"
        /\ results.Status = status
        /\ Len(results.Details) = params.months
        /\ \A i \in 1..Len(results.Details) :
              /\ results.Details[i].Hired # None
              /\ results.Details[i].Fired # None
              /\ results.Details[i].Employees # None
              /\ results.Details[i].Overtime # None
              /\ results.Details[i].UnmetDemand # None

\* C10: two runs that differ only in serviceRate (within [0,1], demand
\* non-negative) have the same status and the same optimal objective value,
\* and each run's optimal assignment satisfies the other run's constraints
\* (so the sets of optimal assignments coincide).
ServiceRateIrrelevant ==
    (pc = "shown2" /\ change = "service_rate") =>
        /\ status = prevStatus
        /\ BothOptimal =>
              /\ Objective(params, Reported(results))
                    = Objective(prevParams, Reported(prevResults))
              /\ Satisfies(prevParams, Reported(results))
              /\ Satisfies(params, Reported(prevResults))

\* C10 witness: the service rate lowered to 0 and the optimal plan still
\* reports unmet demand, which only the shortfall constraint forces.
ShortfallBindsAtZeroRate ==
    /\ BothOptimal /\ change = "service_rate" /\ Valid(params)
    /\ params.service_rate = 0
    /\ TotalUnmet(results) > 0

====
